---- MODULE Spec2Model ----
(***************************************************************************)
(* AstroChat (VastuAi): the chat session of app.py (birth-data gate,       *)
(* relevance gate, chart computation, initial summary, question            *)
(* answering) and the Rule Store queries of pinecone_client.py.            *)
(*                                                                         *)
(* Python values are represented as follows.  An optional value is a       *)
(* sequence of length at most one: None is << >> and a set value x is      *)
(* << x >>.  A dict with a fixed key set is a record or a function.  A     *)
(* raised exception is a result record with ok = FALSE.  The replies of    *)
(* the external collaborators (language model, geocoder, ephemeris,        *)
(* embedding service, vector store) are inputs drawn from small sets.      *)
(***************************************************************************)
EXTENDS Integers, Sequences, FiniteSets, TLC

VARIABLES
    messages,               \* st.session_state.messages
    chart,                  \* st.session_state.chart
    birth_data,             \* st.session_state.birth_data
    awaiting_birth_data,    \* st.session_state.awaiting_birth_data
    initial_summary_shown,  \* st.session_state.initial_summary_shown
    store,                  \* the records of the Pinecone index (the Rule Store)
    turn,                   \* what the last handled user message did
    turns,                  \* number of user messages handled so far
    q                       \* one call outside the chat session (a query, an
                            \* upload, a validation): its inputs and result

vars == << messages, chart, birth_data, awaiting_birth_data,
           initial_summary_shown, store, turn, turns, q >>

----------------------------------------------------------------------------
(* Bounds of the model. *)

\* user messages handled in one behaviour
MaxTurns == 3

----------------------------------------------------------------------------
(* Python values. *)

None == << >>
Some(x) == << x >>
TheValue(opt) == opt[1]

\* JSON null, and a key that the JSON object does not have
JNull == "<null>"
JAbsent == "<absent>"

\* dict.get(key): None for an absent key
DictGet(v) == IF v = JAbsent THEN JNull ELSE v

\* Python truthiness of a JSON string-or-null value
Truthy(v) == v \notin {JNull, ""}

\* str.strip() on the texts the collaborators return here
Strip(s) ==
    CASE s = "  Non_Astrology \n" -> "Non_Astrology"
      [] s = " Yes\n" -> "Yes"
      [] s = "NO\n" -> "NO"
      [] OTHER -> s

\* str.lower() on the texts the collaborators return here
Lower(s) ==
    CASE s = "Non_Astrology" -> "non_astrology"
      [] s = "Yes" -> "yes"
      [] s = "NO" -> "no"
      [] s = "Yes, it is about astrology." -> "yes, it is about astrology."
      [] s = "Sure! Here is the data" -> "sure! here is the data"
      [] s = "Sun" -> "sun"
      [] s = "Moon" -> "moon"
      [] s = "Mars" -> "mars"
      [] s = "Mercury" -> "mercury"
      [] s = "Jupiter" -> "jupiter"
      [] s = "Venus" -> "venus"
      [] s = "Saturn" -> "saturn"
      [] s = "Rahu" -> "rahu"
      [] s = "Ketu" -> "ketu"
      [] OTHER -> s

----------------------------------------------------------------------------
(* Chart calculation: src/calculation/horoscope.py and geocoding.py. *)

\* HoroscopeCalculator.PLANETS: the names, in dict (insertion) order
PlanetOrder ==
    << "Sun", "Moon", "Mars", "Mercury", "Jupiter", "Venus", "Saturn", "Rahu", "Ketu" >>

Planets == { PlanetOrder[i] : i \in 1..Len(PlanetOrder) }

\* HoroscopeCalculator.PLANETS: name -> Swiss Ephemeris body; Rahu and Ketu
\* both map to the mean node
PLANETS ==
    [ p \in Planets |-> IF p \in {"Rahu", "Ketu"} THEN "MEAN_NODE" ELSE p ]

\* a raised exception, and a returned value
Raised == [ok |-> FALSE, val |-> None]
Returned(x) == [ok |-> TRUE, val |-> Some(x)]

\* geocoding.get_coordinates: (lat, lon) in whole degrees, None for a place
\* Nominatim does not know, a RuntimeError when the service fails
get_coordinates(place_name, fault) ==
    IF fault = "geocode" THEN Raised
    ELSE CASE place_name = "Ahmedabad" -> Returned(Some(<< 23, 73 >>))
           [] place_name = "Mumbai" -> Returned(Some(<< 19, 73 >>))
           [] OTHER -> Returned(None)

\* datetime.strptime(f"{date} {time}", "%Y-%m-%d %H:%M") succeeds
ParsesAsDateTime(date, time) ==
    /\ date \in {"2004-01-16", "1990-01-15", "2013-05-09"}
    /\ time \in {"10:30"}

\* calculate_julian_day: the ephemeris day, abstracted to a small index
calculate_julian_day(date, time, timezone_offset) ==
    CASE date = "2004-01-16" -> 0
      [] date = "2013-05-09" -> 33
      [] OTHER -> 1

\* calculate_ascendant: swe.houses(...)[1][0], a double in [0, 360): deg whole
\* degrees plus ulps steps of the double grid above them
calculate_ascendant(jd, latitude, longitude) ==
    [ deg |-> (latitude + longitude + 100 * jd) % 360,
      ulps |-> IF jd = 33 THEN 1 ELSE 0 ]

\* calculate_planet_position: swe.calc_ut(...)[0][0], whole degrees in 0..359
calculate_planet_position(planet_id, jd) ==
    LET base == CASE planet_id = "Sun" -> 10
                  [] planet_id = "Moon" -> 100
                  [] planet_id = "Mars" -> 215
                  [] planet_id = "Mercury" -> 25
                  [] planet_id = "Jupiter" -> 310
                  [] planet_id = "Venus" -> 45
                  [] planet_id = "Saturn" -> 170
                  [] OTHER -> 200
    IN (base + 47 * jd) % 360

\* the largest power of two that is at most n (n in 1..511): doubles from it
\* up to its double are equally spaced
PowerOfTwoBelow(n) ==
    CHOOSE b \in {1, 2, 4, 8, 16, 32, 64, 128, 256} : b <= n /\ n < 2 * b

\* a slip: the distance from the ascendant is not reduced modulo 360
DegreeToHouseNoWrap(planet_degree, ascendant_degree) ==
    ((planet_degree - ascendant_degree.deg) \div 30) + 1

\* degree_to_house: int(((planet - ascendant) % 360) / 30) + 1, in doubles.
\* planet_degree is a whole degree; ascendant_degree is a whole degree (ulps
\* 0) or the next double above one (ulps 1).  distance is the double
\* (planet - ascendant) % 360, cut to whole degrees.  With whole-degree
\* operands the arithmetic is exact.  Otherwise the exact distance is a step
\* of the ascendant's spacing short of arc (the whole distance, a full
\* circle when planet and ascendant share the whole degree); the double
\* computed is arc itself when the ascendant lies below the largest power
\* of two that is at most arc, because its step is then no more than half
\* the spacing of the doubles below arc, and is less than arc otherwise.
\* A full circle of 360.0 gives int(360.0 / 30) + 1.
degree_to_house(planet_degree, ascendant_degree) ==
    LET whole == (planet_degree - ascendant_degree.deg) % 360
        arc == IF whole = 0 THEN 360 ELSE whole
        distance == IF ascendant_degree.ulps = 0 THEN whole
                    ELSE IF ascendant_degree.deg < PowerOfTwoBelow(arc) THEN arc
                    ELSE arc - 1
    IN (distance \div 30) + 1

\* calculate_chart, lines 168-172: Ketu is placed from Rahu's longitude
KetuHouse(rahu_degree, ascendant) ==
    LET ketu_degree == (rahu_degree + 180) % 360
    IN degree_to_house(ketu_degree, ascendant)

\* calculate_chart: parse the date, then one house per planet
calculate_chart(date, time, latitude, longitude, timezone_offset, fault) ==
    IF ~ParsesAsDateTime(date, time) THEN Raised
    ELSE IF fault = "ephemeris" THEN Raised
    ELSE
        LET jd == calculate_julian_day(date, time, timezone_offset)
            ascendant == calculate_ascendant(jd, latitude, longitude)
        IN Returned(
            [ planet_name \in Planets |->
                IF planet_name = "Ketu"
                THEN KetuHouse(calculate_planet_position(PLANETS[planet_name], jd),
                               ascendant)
                ELSE degree_to_house(
                         calculate_planet_position(PLANETS[planet_name], jd),
                         ascendant) ])

\* LalKitabHouseSystem.validate_chart: the first required planet that is
\* missing or placed outside 1..12 makes it False
required_planets ==
    << "Sun", "Moon", "Mars", "Mercury", "Jupiter", "Venus", "Saturn", "Rahu", "Ketu" >>

\* a slip: the upper end of the range is left out
ValidateChartOpenRange(chart_) ==
    \A i \in 1..Len(required_planets) :
        /\ required_planets[i] \in DOMAIN chart_
        /\ 1 <= chart_[required_planets[i]]
        /\ chart_[required_planets[i]] < 12

validate_chart(chart_) ==
    \A i \in 1..Len(required_planets) :
        /\ required_planets[i] \in DOMAIN chart_
        /\ 1 <= chart_[required_planets[i]]
        /\ chart_[required_planets[i]] <= 12

\* a slip: the comparison is >= instead of ==
GetPlanetsFromHouseOn(chart_, house) ==
    SelectSeq(PlanetOrder, LAMBDA p : p \in DOMAIN chart_ /\ chart_[p] >= house)

\* LalKitabHouseSystem.get_planets_in_house:
\* [planet for planet, h in chart.items() if h == house]
get_planets_in_house(chart_, house) ==
    SelectSeq(PlanetOrder, LAMBDA p : p \in DOMAIN chart_ /\ chart_[p] = house)

\* ", ".join(planets)
RECURSIVE JoinComma(_)
JoinComma(names) ==
    IF names = << >> THEN ""
    ELSE IF Len(names) = 1 THEN names[1]
    ELSE names[1] \o ", " \o JoinComma(Tail(names))

\* LalKitabHouseSystem.format_chart_by_houses: one line per house 1..12
format_chart_by_houses(chart_) ==
    [ house \in 1..12 |->
        LET planets == get_planets_in_house(chart_, house)
        IN [ house |-> house, planets |-> planets,
             planets_str |-> IF planets # << >> THEN JoinComma(planets)
                             ELSE "Empty" ] ]

\* calculate_chart_by_place: geocode, raise when the place is unknown
calculate_chart_by_place(date, time, place_name, timezone_offset, fault) ==
    LET coords == get_coordinates(place_name, fault)
    IN IF ~coords.ok THEN Raised
       ELSE IF TheValue(coords.val) = None THEN Raised
       ELSE LET c == TheValue(TheValue(coords.val))
            IN calculate_chart(date, time, c[1], c[2], timezone_offset, fault)

\* app.generate_chart
generate_chart(data, fault) ==
    calculate_chart_by_place(data.date, data.time, data.place, data.timezone, fault)

----------------------------------------------------------------------------
(* The Rule Store: src/retrieval/pinecone_client.py.  The index is a set   *)
(* of records [id, values, metadata], at most one per id.  An embedding of *)
(* 768 floats is abstracted to a vector of two small integers.             *)

\* a slip: the id leaves the house out
VectorIdPlanetOnly(planet, house) == Lower(planet)

\* upsert_chunks: vector_id = f"{chunk['planet'].lower()}_house_{chunk['house']}"
VectorId(planet, house) == Lower(planet) \o "_house_" \o ToString(house)

\* upsert_chunks: the record written for one embedded chunk
VectorOf(chunk) ==
    [ id |-> VectorId(chunk.planet, chunk.house),
      values |-> chunk.embedding,
      metadata |-> [ planet |-> chunk.planet, house |-> chunk.house,
                     heading |-> chunk.heading, content |-> chunk.content,
                     char_count |-> chunk.char_count ] ]

\* upsert_chunks, lines 86-101: one vector per chunk, in input order
VectorsOf(chunks) == [ i \in 1..Len(chunks) |-> VectorOf(chunks[i]) ]

\* the index writes one vector: a record with the same id is replaced
UpsertOne(st, v) == { r \in st : r.id # v.id } \cup { v }

\* index.upsert(vectors=batch): the vectors are written in order
RECURSIVE IndexUpsert(_, _)
IndexUpsert(st, batch) ==
    IF batch = << >> THEN st
    ELSE IndexUpsert(UpsertOne(st, Head(batch)), Tail(batch))

\* a slip: the slice takes one vector too many
BatchOfOneMore(vectors, i, batch_size) ==
    SubSeq(vectors, i + 1,
           IF i + batch_size + 1 < Len(vectors) THEN i + batch_size + 1
           ELSE Len(vectors))

\* line 105: batch = vectors[i:i + batch_size], i counted from 0
BatchOf(vectors, i, batch_size) ==
    SubSeq(vectors, i + 1,
           IF i + batch_size < Len(vectors) THEN i + batch_size ELSE Len(vectors))

\* a slip: a failed write is skipped and the loop goes on
BatchFailedGoesOn(st, sent, rest) == rest

\* line 106 raises: upsert_chunks is left, nothing is returned.  sent lists
\* the batches handed to index.upsert, the failing one included.
BatchFailed(st, sent, rest) ==
    [ ok |-> FALSE, store |-> st, total_uploaded |-> None, sent |-> sent ]

\* upsert_chunks, lines 103-118; the write of batch number fail_at raises
\* (0: no write raises) and leaves the index as it was
RECURSIVE UpsertLoop(_, _, _, _, _, _, _)
UpsertLoop(st, vectors, batch_size, fail_at, i, total_uploaded, sent) ==
    IF i >= Len(vectors)
    THEN [ ok |-> TRUE, store |-> st, total_uploaded |-> Some(total_uploaded),
           sent |-> sent ]
    ELSE LET batch == BatchOf(vectors, i, batch_size)
         IN IF Len(sent) + 1 = fail_at
            THEN BatchFailed(st, Append(sent, batch),
                     UpsertLoop(st, vectors, batch_size, fail_at, i + batch_size,
                                total_uploaded, Append(sent, batch)))
            ELSE UpsertLoop(IndexUpsert(st, batch), vectors, batch_size, fail_at,
                            i + batch_size, total_uploaded + Len(batch),
                            Append(sent, batch))

\* PineconeClient.upsert_chunks on a connected index
upsert_chunks(st, chunks, batch_size, fail_at) ==
    UpsertLoop(st, VectorsOf(chunks), batch_size, fail_at, 0, 0, << >>)

\* process_pdf, lines 619-625: the message shown after the upload step
UploadReport(r) ==
    IF r.ok THEN [ kind |-> "success", uploaded |-> r.total_uploaded ]
    ELSE [ kind |-> "error", uploaded |-> None ]

\* a slip: the dummy query vector is not the zero vector
UnitVector == << 1, 0 >>

\* query_by_chart: vector=[0.0] * 768
ZeroVector == << 0, 0 >>

\* the index's similarity score of a stored vector for a query vector
Score(v, w) == v[1] * w[1] + v[2] * w[2]

\* the filter {"$and": [{"planet": {"$eq": p}}, {"house": {"$eq": h}}]}
AndFilter(planet, house) == [planet |-> planet, house |-> house]

\* a slip: the filter holds the planet condition only
MatchesAndPlanetOnly(f, metadata) == metadata.planet = f.planet

\* a record's metadata satisfies an $and filter
MatchesAnd(f, metadata) ==
    metadata.planet = f.planet /\ metadata.house = f.house

\* index.query: the matches of a set of records, best score first, at most
\* top_k of them; equal scores come in the index's own (fixed) order
RECURSIVE Ranked(_, _, _)
Ranked(recs, vector, top_k) ==
    IF recs = {} \/ top_k = 0 THEN << >>
    ELSE LET best == CHOOSE r \in recs :
                        \A o \in recs : Score(vector, o.values) <= Score(vector, r.values)
         IN << [ id |-> best.id, score |-> Score(vector, best.values),
                 metadata |-> best.metadata ] >>
            \o Ranked(recs \ {best}, vector, top_k - 1)

\* index.query(vector, filter = one $and filter, top_k, include_metadata=True)
IndexQueryAnd(st, vector, f, top_k) ==
    Ranked({ r \in st : MatchesAnd(f, r.metadata) }, vector, top_k)

\* query_by_chart, lines 163-173: one result per match of the pair's lookup
PairResults(planet, house, matches) ==
    [ i \in 1..Len(matches) |->
        [ planet |-> planet, house |-> house, id |-> matches[i].id,
          score |-> matches[i].score,
          content |-> matches[i].metadata.content,
          heading |-> matches[i].metadata.heading,
          metadata |-> matches[i].metadata ] ]

\* a slip: a failed lookup throws away what the earlier pairs returned
PairFailedDropsAll(all_results) == << >>

\* query_by_chart, lines 175-177: the lookup of a pair raised
PairFailed(all_results) == all_results

\* query_by_chart, the loop over chart.items() from the i-th planet on;
\* failing is the set of planets whose index.query raises
RECURSIVE QueryLoop(_, _, _, _, _, _)
QueryLoop(st, chart_, top_k, failing, i, all_results) ==
    IF i > Len(PlanetOrder) THEN all_results
    ELSE LET planet == PlanetOrder[i]
         IN IF planet \notin DOMAIN chart_
            THEN QueryLoop(st, chart_, top_k, failing, i + 1, all_results)
            ELSE IF planet \in failing
            THEN QueryLoop(st, chart_, top_k, failing, i + 1, PairFailed(all_results))
            ELSE QueryLoop(st, chart_, top_k, failing, i + 1,
                     all_results \o PairResults(planet, chart_[planet],
                         IndexQueryAnd(st, ZeroVector,
                             AndFilter(planet, chart_[planet]), top_k)))

\* PineconeClient.query_by_chart
query_by_chart(st, chart_, top_k, failing) ==
    QueryLoop(st, chart_, top_k, failing, 1, << >>)

\* query_by_chart, lines 146-160: the index.query requests the loop issues,
\* one per item of chart.items(), whether or not the request then raises
RECURSIVE LookupsLoop(_, _, _, _)
LookupsLoop(chart_, top_k, i, issued) ==
    IF i > Len(PlanetOrder) THEN issued
    ELSE LET planet == PlanetOrder[i]
         IN IF planet \notin DOMAIN chart_
            THEN LookupsLoop(chart_, top_k, i + 1, issued)
            ELSE LookupsLoop(chart_, top_k, i + 1,
                     Append(issued, [ vector |-> ZeroVector,
                                      filter |-> AndFilter(planet, chart_[planet]),
                                      top_k |-> top_k ]))

query_by_chart_lookups(chart_, top_k) == LookupsLoop(chart_, top_k, 1, << >>)

\* query_by_chart_and_question, lines 194-204: the $or of one $and filter
\* per item of chart.items(), in dict order
RECURSIVE OrFilterLoop(_, _, _)
OrFilterLoop(chart_, i, and_filters) ==
    IF i > Len(PlanetOrder) THEN and_filters
    ELSE LET planet == PlanetOrder[i]
         IN IF planet \notin DOMAIN chart_
            THEN OrFilterLoop(chart_, i + 1, and_filters)
            ELSE OrFilterLoop(chart_, i + 1,
                     Append(and_filters, AndFilter(planet, chart_[planet])))

OrFilter(chart_) == OrFilterLoop(chart_, 1, << >>)

\* a slip: the $or filter is satisfied by the planet alone
MatchesOrPlanetOnly(and_filters, metadata) ==
    \E i \in 1..Len(and_filters) : metadata.planet = and_filters[i].planet

\* a record's metadata satisfies an $or filter
MatchesOr(and_filters, metadata) ==
    \E i \in 1..Len(and_filters) : MatchesAnd(and_filters[i], metadata)

\* index.query(vector, filter = an $or filter, top_k, include_metadata=True)
IndexQueryOr(st, vector, and_filters, top_k) ==
    Ranked({ r \in st : MatchesOr(and_filters, r.metadata) }, vector, top_k)

\* query_by_chart_and_question, lines 213-225: one result per match
HybridResults(matches) ==
    [ i \in 1..Len(matches) |->
        [ planet |-> matches[i].metadata.planet,
          house |-> matches[i].metadata.house,
          id |-> matches[i].id,
          score |-> matches[i].score,
          content |-> matches[i].metadata.content,
          heading |-> matches[i].metadata.heading,
          metadata |-> matches[i].metadata ] ]

\* a slip: when the request fails the per-pair lookups are used instead
HybridFallsBack(st, chart_, question_embedding, top_k, request_fails) ==
    IF request_fails
    THEN [ ok |-> TRUE, results |-> query_by_chart(st, chart_, top_k, {}),
           requests |-> 1 + Cardinality(DOMAIN chart_) ]
    ELSE [ ok |-> TRUE,
           results |-> HybridResults(
               IndexQueryOr(st, question_embedding, OrFilter(chart_), top_k)),
           requests |-> 1 ]

\* PineconeClient.query_by_chart_and_question; request_fails: index.query
\* raises.  requests counts the index.query requests issued.
query_by_chart_and_question(st, chart_, question_embedding, top_k, request_fails) ==
    IF request_fails
    THEN [ ok |-> FALSE, results |-> << >>, requests |-> 1 ]
    ELSE [ ok |-> TRUE,
           results |-> HybridResults(
               IndexQueryOr(st, question_embedding, OrFilter(chart_), top_k)),
           requests |-> 1 ]

----------------------------------------------------------------------------
(* The language-model gates of app.py. *)

\* the replies process_user_message returns (the fixed part of each text)
ReplyChartReady == "Got it! Let me calculate your birth chart ... Feel free to ask me any questions about your chart!"
ReplyChartError == "I couldn't calculate your birth chart. ... Please provide your birth details again."
ReplyNeedMore == "I need more information. Please provide:"
ReplyNotBirthData == "I'm an astrology assistant. To get started, please provide your birth date, time, and place."
ReplyRefusal == "I am an astrology assistant and can only answer questions related to your birth chart and astrological predictions. ..."
ReplyAnswer == "<the language model's answer>"
ReplyAnswerError == "I encountered an error: ... Please try rephrasing your question."
Welcome == "Welcome! I'm your AI astrologer. ... To get started, please tell me: ..."

\* generate_initial_summary's two texts
SummaryNoData == "I don't have any astrological data in my database yet. Please upload a PDF first."
SummaryText == "## Your Astrological Summary ..."

\* a slip: the except branch reports only the date as missing
ExtractFailedDateOnly ==
    [ status |-> "incomplete", data |-> None,
      missing_fields |-> << "birth date" >>, message |-> "" ]

\* the result extract_birth_data_with_llm returns when anything raises
ExtractFailed ==
    [ status |-> "incomplete", data |-> None,
      missing_fields |-> << "birth date", "birth time", "birth place" >>,
      message |-> "" ]

\* a slip: a field counts as missing only when it is null (is None), so an
\* empty string passes
MissingFieldsNullOnly(data) ==
    (IF DictGet(data.date) = JNull THEN << "birth date" >> ELSE << >>)
    \o (IF DictGet(data.time) = JNull THEN << "birth time" >> ELSE << >>)
    \o (IF DictGet(data.place) = JNull THEN << "birth place" >> ELSE << >>)

\* extract_birth_data_with_llm, lines 437-444: the missing fields, in order
MissingFields(data) ==
    (IF ~Truthy(DictGet(data.date)) THEN << "birth date" >> ELSE << >>)
    \o (IF ~Truthy(DictGet(data.time)) THEN << "birth time" >> ELSE << >>)
    \o (IF ~Truthy(DictGet(data.place)) THEN << "birth place" >> ELSE << >>)

\* extract_birth_data_with_llm, lines 446-465: the result for a parsed dict
ClassifyRecord(data) ==
    LET missing == MissingFields(data)
    IN IF missing # << >>
       THEN [ status |-> "incomplete", data |-> None,
              missing_fields |-> missing, message |-> "" ]
       ELSE [ status |-> "complete",
              data |-> Some([ date |-> data.date, time |-> data.time,
                              place |-> data.place, timezone |-> "5.5" ]),
              missing_fields |-> << >>, message |-> "" ]

\* extract_birth_data_with_llm.  llm is the language model's behaviour on
\* the extraction prompt: it raises, or returns a text; json is what
\* json.loads makes of that text ("error": it raises, "string": a JSON
\* string, "object": a dict with the fields date, time, place).
extract_birth_data_with_llm(llm) ==
    IF llm.raises THEN ExtractFailed
    ELSE IF Lower(Strip(llm.text)) = "non_astrology"
    THEN [ status |-> "non_astrology", data |-> None, missing_fields |-> << >>,
           message |-> ReplyNotBirthData ]
    ELSE IF llm.json.tag = "error" THEN ExtractFailed
    ELSE IF llm.json.tag # "object" THEN ExtractFailed
    ELSE ClassifyRecord(llm.json)

\* a slip: a failed classifier call refuses the message
ValidateFailsClosed(llm) ==
    ~llm.raises /\ Lower(Strip(llm.text)) = "yes"

\* validate_astrology_question; llm is the model's behaviour on the
\* validation prompt
validate_astrology_question(llm) ==
    IF llm.raises THEN TRUE
    ELSE Lower(Strip(llm.text)) = "yes"

\* generate_initial_summary: connect, query the store by chart, summarise.
\* queries counts the index.query requests issued.
generate_initial_summary(st, chart_, fault, failing) ==
    IF fault = "connect" THEN [ok |-> FALSE, text |-> "", queries |-> 0]
    ELSE LET rules == query_by_chart(st, chart_, 10, failing)
             n == Cardinality(DOMAIN chart_)
         IN IF Len(rules) = 0
            THEN [ok |-> TRUE, text |-> SummaryNoData, queries |-> n]
            ELSE IF fault = "summary_llm"
            THEN [ok |-> FALSE, text |-> "", queries |-> n]
            ELSE [ok |-> TRUE, text |-> SummaryText, queries |-> n]

\* answer_question: embed the question, connect, hybrid query, generate.
\* embeds and queries count the embedding and index.query requests issued.
answer_question(st, chart_, fault) ==
    IF fault = "embed" THEN [ok |-> FALSE, embeds |-> 1, queries |-> 0]
    ELSE IF fault = "connect" THEN [ok |-> FALSE, embeds |-> 1, queries |-> 0]
    ELSE IF chart_ = None THEN [ok |-> FALSE, embeds |-> 1, queries |-> 0]
    ELSE IF fault = "hybrid_query" THEN [ok |-> FALSE, embeds |-> 1, queries |-> 1]
    ELSE IF fault = "answer_llm" THEN [ok |-> FALSE, embeds |-> 1, queries |-> 1]
    ELSE [ok |-> TRUE, embeds |-> 1, queries |-> 1]

----------------------------------------------------------------------------
(* process_user_message.  sess is the part of st.session_state it reads    *)
(* and writes; the result is the new session and a record of what the      *)
(* turn did (the reply it returned among it).                              *)

\* the gate of the conversation: process_user_message, line 321
Gate(bd) == IF bd = None THEN "AWAITING_BIRTH_DATA" ELSE "CHART_READY"

\* a turn record before anything has happened in the turn
NoTurn ==
    [ gate |-> "none", status |-> "none", missing |-> << >>, supplied |-> {},
      got_record |-> FALSE, extract_failed |-> FALSE, chart_attempted |-> FALSE,
      chart_computed |-> FALSE, summary_ok |-> FALSE, summary |-> "",
      relevant |-> FALSE, embeds |-> 0, queries |-> 0, reply |-> "" ]

\* the fields a language-model reply carries a (truthy) value for
Supplied(llm) ==
    IF llm.raises \/ llm.json.tag # "object" THEN {}
    ELSE { f \in {"date", "time", "place"} : Truthy(DictGet(llm.json[f])) }

\* the language model returned a date/time/place record
GotRecord(llm) ==
    ~llm.raises /\ Lower(Strip(llm.text)) # "non_astrology" /\ llm.json.tag = "object"

\* the extraction step itself failed (the model raised, or its text was
\* neither the marker nor a JSON object)
ExtractionFailed(llm) ==
    \/ llm.raises
    \/ Lower(Strip(llm.text)) # "non_astrology" /\ llm.json.tag # "object"

\* a slip: the except branch forgets to reset birth_data
OnChartExceptionKeepsData(sess) == sess

\* lines 339-341: the except branch of the chart block
OnChartException(sess) == [sess EXCEPT !.birth_data = None]

\* a slip: the draft is dropped once the chart and summary are there
OnChartReadyDropsData(sess) ==
    [sess EXCEPT !.initial_summary_shown = TRUE, !.birth_data = None]

\* line 335: chart and summary are there
OnChartReady(sess) == [sess EXCEPT !.initial_summary_shown = TRUE]

\* lines 324-341: the message was classified complete
CompleteBranch(sess, result, fault, failing, st, t) ==
    LET s1 == [sess EXCEPT !.birth_data = result.data]
        c == generate_chart(TheValue(result.data), fault)
    IN IF ~c.ok
       THEN [ sess |-> OnChartException(s1),
              turn |-> [t EXCEPT !.chart_attempted = TRUE,
                                 !.reply = ReplyChartError] ]
       ELSE LET s2 == [s1 EXCEPT !.chart = c.val]
                sm == generate_initial_summary(st, TheValue(c.val), fault, failing)
            IN IF ~sm.ok
               THEN [ sess |-> OnChartException(s2),
                      turn |-> [t EXCEPT !.chart_attempted = TRUE,
                                         !.chart_computed = TRUE,
                                         !.queries = sm.queries,
                                         !.reply = ReplyChartError] ]
               ELSE [ sess |-> OnChartReady(s2),
                      turn |-> [t EXCEPT !.chart_attempted = TRUE,
                                         !.chart_computed = TRUE,
                                         !.summary_ok = TRUE,
                                         !.summary = sm.text,
                                         !.queries = sm.queries,
                                         !.reply = ReplyChartReady] ]

\* a slip: the partial draft is stored as the session's birth data
OnIncompleteStoresDraft(sess, llm) ==
    IF Supplied(llm) = {} THEN sess
    ELSE [sess EXCEPT !.birth_data =
              Some([ date |-> llm.json.date, time |-> llm.json.time,
                     place |-> llm.json.place, timezone |-> "5.5" ])]

\* lines 343-347: an incomplete message leaves the session as it is
OnIncomplete(sess, llm) == sess

\* lines 321-351: no birth data yet
AwaitingBranch(sess, llm, fault, failing, st) ==
    LET result == extract_birth_data_with_llm(llm)
        t == [NoTurn EXCEPT !.gate = "AWAITING_BIRTH_DATA",
                            !.status = result.status,
                            !.missing = result.missing_fields,
                            !.supplied = Supplied(llm),
                            !.got_record = GotRecord(llm),
                            !.extract_failed = ExtractionFailed(llm)]
    IN IF result.status = "complete"
       THEN CompleteBranch(sess, result, fault, failing, st, t)
       ELSE IF result.status = "incomplete"
       THEN [ sess |-> OnIncomplete(sess, llm),
              turn |-> [t EXCEPT !.reply = ReplyNeedMore] ]
       ELSE [ sess |-> sess, turn |-> [t EXCEPT !.reply = result.message] ]

\* a slip: a failed answer drops the chart and the birth data
AnswerBranchDropsOnError(sess, fault, st, t) ==
    LET a == answer_question(st, sess.chart, fault)
    IN [ sess |-> IF a.ok THEN sess
                  ELSE [sess EXCEPT !.chart = None, !.birth_data = None],
         turn |-> [t EXCEPT !.embeds = a.embeds, !.queries = a.queries,
                            !.reply = IF a.ok THEN ReplyAnswer
                                      ELSE ReplyAnswerError] ]

\* lines 361-366: answer the question, an error becomes a reply
AnswerBranch(sess, fault, st, t) ==
    LET a == answer_question(st, sess.chart, fault)
    IN [ sess |-> sess,
         turn |-> [t EXCEPT !.embeds = a.embeds, !.queries = a.queries,
                            !.reply = IF a.ok THEN ReplyAnswer
                                      ELSE ReplyAnswerError] ]

\* a slip: the question is answered first and the refusal decided after
ReadyBranchAnswersFirst(sess, llm, fault, st) ==
    LET is_astrology == validate_astrology_question(llm)
        t == [NoTurn EXCEPT !.gate = "CHART_READY", !.relevant = is_astrology]
        r == AnswerBranch(sess, fault, st, t)
    IN IF ~is_astrology
       THEN [ sess |-> sess, turn |-> [r.turn EXCEPT !.reply = ReplyRefusal] ]
       ELSE r

\* lines 354-366: birth data is set
ReadyBranch(sess, llm, fault, st) ==
    LET is_astrology == validate_astrology_question(llm)
        t == [NoTurn EXCEPT !.gate = "CHART_READY", !.relevant = is_astrology]
    IN IF ~is_astrology
       THEN [ sess |-> sess, turn |-> [t EXCEPT !.reply = ReplyRefusal] ]
       ELSE AnswerBranch(sess, fault, st, t)

process_user_message(sess, llm, fault, failing, st) ==
    IF sess.birth_data = None
    THEN AwaitingBranch(sess, llm, fault, failing, st)
    ELSE ReadyBranch(sess, llm, fault, st)

----------------------------------------------------------------------------
(* Inputs: what the collaborators may return. *)

NotJson == [tag |-> "error", date |-> JAbsent, time |-> JAbsent, place |-> JAbsent]

DateValues == {JAbsent, JNull, "2004-01-16", "1990-01-15", "16 jan"}
TimeValues == {JNull, "", "10:30"}
PlaceValues == {JNull, "Ahmedabad", "Mumbai", "Atlantis"}

\* the language model on the extraction prompt
ExtractReplies ==
    { [raises |-> TRUE, text |-> "", json |-> NotJson] }
    \cup { [raises |-> FALSE, text |-> x, json |-> NotJson] :
             x \in {"non_astrology", "  Non_Astrology \n", "Sure! Here is the data"} }
    \cup { [raises |-> FALSE, text |-> "\"non_astrology\"",
            json |-> [NotJson EXCEPT !.tag = "string"]] }
    \cup { [raises |-> FALSE, text |-> "{...}",
            json |-> [tag |-> "object", date |-> d, time |-> t, place |-> p]] :
             d \in DateValues, t \in TimeValues, p \in PlaceValues }

\* the language model on the validation prompt
RelevanceReplies ==
    { [raises |-> TRUE, text |-> "", json |-> NotJson] }
    \cup { [raises |-> FALSE, text |-> x, json |-> NotJson] :
             x \in {"yes", " Yes\n", "no", "NO\n", "Yes, it is about astrology."} }

\* the one collaborator call that fails during a turn (the first failure
\* ends the turn's work, so one per turn covers every outcome)
AwaitingFaults == {"none", "geocode", "ephemeris", "connect", "summary_llm"}
ReadyFaults == {"none", "embed", "connect", "hybrid_query", "answer_llm"}

\* the planets whose per-pair lookup fails during an initial summary
FailSets == { {}, {"Sun"}, Planets }

\* a turn's inputs while no birth data is set; the collaborators behind the
\* chart block are only called for a message classified complete
AwaitingInputs ==
    { in \in ExtractReplies \X AwaitingFaults \X FailSets :
        extract_birth_data_with_llm(in[1]).status # "complete"
            => (in[2] = "none" /\ in[3] = {}) }

\* chunks as the ingestion pipeline embeds them
Chunk(planet, house, heading, content, embedding) ==
    [ planet |-> planet, house |-> house, heading |-> heading,
      content |-> content, char_count |-> Len(content), embedding |-> embedding ]

SampleChunks ==
    { Chunk("Sun", 10, "Sun in 10th House", "Sun in 10th House\nfame", << 1, 0 >>),
      Chunk("Moon", 1, "Moon in 1st House", "Moon in 1st House\ncalm", << 0, 1 >>),
      Chunk("Mars", 4, "Mars in 4 house", "Mars in 4 house\nland", << 1, 1 >>),
      Chunk("Sun", 1, "Sun in I House", "Sun in I House\nking", << 2, 1 >>),
      Chunk("Venus", 2, "Venus in 2nd House", "Venus in 2nd House", << 0, 2 >>) }

\* Rule Stores the ingestion can have produced
SampleStores ==
    { {},
      { VectorOf(c) : c \in SampleChunks },
      { VectorOf(c) : c \in { x \in SampleChunks : x.planet = "Venus" } } }

----------------------------------------------------------------------------
(* The chat session: app.py, module level and main(). *)

Session == [ chart |-> chart, birth_data |-> birth_data,
             initial_summary_shown |-> initial_summary_shown ]

NoQuery == [ op |-> "none", phase |-> "none", chart |-> << >>, top_k |-> 0,
             failing |-> {}, vector |-> << >>, request_fails |-> FALSE,
             fault |-> "none", result |-> << >>, lookups |-> << >>,
             requests |-> 0, ok |-> TRUE, text |-> "", data |-> None ]

\* lines 244-253, then the first run of main() appends the welcome message
Init ==
    /\ messages = << [role |-> "assistant", content |-> Welcome] >>
    /\ chart = None
    /\ birth_data = None
    /\ awaiting_birth_data = FALSE
    /\ initial_summary_shown = FALSE
    /\ store \in SampleStores
    /\ turn = NoTurn
    /\ turns = 0
    /\ q = NoQuery

\* main(), lines 303-314: a chat input is handled by process_user_message
HandleMessage(llm, fault, failing) ==
    LET r == process_user_message(Session, llm, fault, failing, store)
    IN /\ messages' = messages
                      \o << [role |-> "user", content |-> "<prompt>"],
                            [role |-> "assistant", content |-> r.turn.reply] >>
       /\ chart' = r.sess.chart
       /\ birth_data' = r.sess.birth_data
       /\ initial_summary_shown' = r.sess.initial_summary_shown
       /\ turn' = r.turn
       /\ turns' = turns + 1
       /\ UNCHANGED << awaiting_birth_data, store, q >>

UserMessage ==
    /\ turns < MaxTurns
    /\ IF birth_data = None
       THEN \E in \in AwaitingInputs : HandleMessage(in[1], in[2], in[3])
       ELSE \E llm \in RelevanceReplies, fault \in ReadyFaults :
                HandleMessage(llm, fault, {})

\* main(), lines 279-285, and the rerun's welcome message (lines 291-295)
NewReading ==
    /\ messages' = << [role |-> "assistant", content |-> Welcome] >>
    /\ chart' = None
    /\ birth_data' = None
    /\ awaiting_birth_data' = FALSE
    /\ initial_summary_shown' = FALSE
    /\ turn' = NoTurn
    /\ UNCHANGED << store, turns, q >>

Next == UserMessage \/ NewReading

Spec == Init /\ [][Next]_vars

----------------------------------------------------------------------------
(* One call of a Rule Store query, on inputs drawn in the initial state. *)

\* largest top_k a query is called with
MaxTopK == 2

\* the charts calculate_chart_by_place computes for the sample birth data
SampleCharts ==
    { TheValue(generate_chart([ date |-> d, time |-> "10:30", place |-> p,
                                timezone |-> "5.5" ], "none").val) :
        d \in {"2004-01-16", "1990-01-15"}, p \in {"Ahmedabad", "Mumbai"} }

\* a record another writer of the shared index left under an id of its own,
\* carrying the metadata of a pair the ingestion also wrote
ForeignRecord ==
    [ VectorOf(Chunk("Sun", 10, "Sun in 10th House", "Sun in 10th House\nrank",
                     << 0, 1 >>)) EXCEPT !.id = "sun_10" ]

\* the Rule Stores a query can meet
QueryStores ==
    SampleStores \cup { { VectorOf(c) : c \in SampleChunks } \cup { ForeignRecord } }

\* the question embeddings a hybrid query is given
QuestionVectors == { << 1, 0 >>, << 0, 1 >>, << 1, 1 >> }

\* the collaborator of generate_initial_summary that raises
SummaryFaults == {"none", "connect", "summary_llm"}

QueryCall(op, c, k, failing, vector, request_fails, fault) ==
    [ NoQuery EXCEPT !.op = op, !.phase = "call", !.chart = c, !.top_k = k,
                     !.failing = failing, !.vector = vector,
                     !.request_fails = request_fails, !.fault = fault ]

InitQuery ==
    /\ messages = << [role |-> "assistant", content |-> Welcome] >>
    /\ chart = None
    /\ birth_data = None
    /\ awaiting_birth_data = FALSE
    /\ initial_summary_shown = FALSE
    /\ store \in QueryStores
    /\ turn = NoTurn
    /\ turns = 0
    /\ \E c \in SampleCharts :
           \/ \E k \in 1..MaxTopK, failing \in SUBSET Planets :
                  q = QueryCall("query_by_chart", c, k, failing, << >>, FALSE, "none")
           \/ \E k \in 1..MaxTopK, v \in QuestionVectors, f \in BOOLEAN :
                  q = QueryCall("query_by_chart_and_question", c, k, {}, v, f, "none")
           \/ \E failing \in SUBSET Planets, fault \in SummaryFaults :
                  q = QueryCall("generate_initial_summary", c, 10, failing, << >>,
                                FALSE, fault)

\* PineconeClient.query_by_chart is called and returns
QueryByChart ==
    /\ q.phase = "call"
    /\ q.op = "query_by_chart"
    /\ q' = [q EXCEPT !.phase = "query_by_chart",
                      !.result = query_by_chart(store, q.chart, q.top_k, q.failing),
                      !.lookups = query_by_chart_lookups(q.chart, q.top_k),
                      !.requests = Len(query_by_chart_lookups(q.chart, q.top_k))]
    /\ UNCHANGED << messages, chart, birth_data, awaiting_birth_data,
                    initial_summary_shown, store, turn, turns >>

\* PineconeClient.query_by_chart_and_question is called and returns or raises
QueryByChartAndQuestion ==
    /\ q.phase = "call"
    /\ q.op = "query_by_chart_and_question"
    /\ LET r == query_by_chart_and_question(store, q.chart, q.vector, q.top_k,
                                            q.request_fails)
       IN q' = [q EXCEPT !.phase = "query_by_chart_and_question",
                         !.result = r.results, !.requests = r.requests,
                         !.ok = r.ok]
    /\ UNCHANGED << messages, chart, birth_data, awaiting_birth_data,
                    initial_summary_shown, store, turn, turns >>

\* app.generate_initial_summary is called and returns or raises
GenerateInitialSummary ==
    /\ \/ q.phase = "call" /\ q.op = "generate_initial_summary"
       \/ q.phase = "generate_chart"
    /\ LET r == generate_initial_summary(store, q.chart, q.fault, q.failing)
       IN q' = [q EXCEPT !.phase = "generate_initial_summary",
                         !.requests = r.queries, !.ok = r.ok, !.text = r.text]
    /\ UNCHANGED << messages, chart, birth_data, awaiting_birth_data,
                    initial_summary_shown, store, turn, turns >>

NextQuery == QueryByChart \/ QueryByChartAndQuestion \/ GenerateInitialSummary

SpecQuery == InitQuery /\ [][NextQuery]_vars

----------------------------------------------------------------------------
(* From complete birth data to the Rule Store: app.py, lines 324-337. *)

\* the complete birth data the chart block is entered with
ChartData ==
    { [ date |-> d, time |-> "10:30", place |-> p, timezone |-> "5.5" ] :
        d \in {"2004-01-16", "1990-01-15", "2013-05-09"},
        p \in {"Ahmedabad", "Mumbai"} }

InitChart ==
    /\ messages = << [role |-> "assistant", content |-> Welcome] >>
    /\ chart = None
    /\ birth_data = None
    /\ awaiting_birth_data = FALSE
    /\ initial_summary_shown = FALSE
    /\ store \in QueryStores
    /\ turn = NoTurn
    /\ turns = 0
    /\ \E d \in ChartData, fault \in AwaitingFaults, failing \in FailSets :
           q = [ NoQuery EXCEPT !.op = "generate_chart", !.phase = "call",
                                !.data = Some(d), !.fault = fault,
                                !.failing = failing, !.top_k = 10 ]

\* lines 330-331: generate_chart returns the chart, or raises
GenerateChart ==
    /\ q.phase = "call"
    /\ q.op = "generate_chart"
    /\ LET c == generate_chart(TheValue(q.data), q.fault)
       IN q' = IF c.ok
               THEN [q EXCEPT !.phase = "generate_chart", !.chart = TheValue(c.val)]
               ELSE [q EXCEPT !.phase = "raised", !.ok = FALSE]
    /\ UNCHANGED << messages, chart, birth_data, awaiting_birth_data,
                    initial_summary_shown, store, turn, turns >>

NextChart == GenerateChart \/ GenerateInitialSummary

SpecChart == InitChart /\ [][NextChart]_vars

----------------------------------------------------------------------------
(* Ingestion into the Rule Store: PineconeClient.upsert_chunks. *)

\* bounds of one upload
MaxChunks == 3
MaxBatch == 2

\* embedded chunks of a document: two texts for (Sun, 10), and chunks of
\* other pairs
UploadChunks ==
    { Chunk("Sun", 10, "Sun in 10th House", "Sun in 10th House\nfame", << 1, 0 >>),
      Chunk("Sun", 10, "Sun in 10th House", "Sun in 10th House\nrank", << 0, 1 >>),
      Chunk("Moon", 1, "Moon in 1st House", "Moon in 1st House\ncalm", << 0, 1 >>),
      Chunk("Sun", 1, "Sun in I House", "Sun in I House\nking", << 2, 1 >>) }

\* the chunk lists of at most MaxChunks chunks
ChunkLists == UNION { [1..n -> UploadChunks] : n \in 0..MaxChunks }

InitIngest ==
    /\ messages = << [role |-> "assistant", content |-> Welcome] >>
    /\ chart = None
    /\ birth_data = None
    /\ awaiting_birth_data = FALSE
    /\ initial_summary_shown = FALSE
    /\ store \in SampleStores
    /\ turn = NoTurn
    /\ turns = 0
    /\ \E chunks \in ChunkLists, batch_size \in 1..MaxBatch, fail_at \in 0..MaxChunks :
           q = [ op |-> "upsert_chunks", phase |-> "call", chunks |-> chunks,
                 batch_size |-> batch_size, fail_at |-> fail_at, before |-> store,
                 ok |-> TRUE, total_uploaded |-> None, sent |-> << >>,
                 report |-> [ kind |-> "none", uploaded |-> None ] ]

\* process_pdf, lines 619-625: upsert_chunks runs, its count or its error is
\* shown
UpsertChunks ==
    /\ q.phase = "call"
    /\ LET r == upsert_chunks(store, q.chunks, q.batch_size, q.fail_at)
       IN /\ store' = r.store
          /\ q' = [q EXCEPT !.phase = "upsert_chunks", !.ok = r.ok,
                            !.total_uploaded = r.total_uploaded,
                            !.sent = r.sent, !.report = UploadReport(r)]
    /\ UNCHANGED << messages, chart, birth_data, awaiting_birth_data,
                    initial_summary_shown, turn, turns >>

\* the same chunks are uploaded once more, no write failing
UpsertAgain ==
    /\ q.phase = "upsert_chunks"
    /\ q.ok
    /\ LET r == upsert_chunks(store, q.chunks, q.batch_size, 0)
       IN /\ store' = r.store
          /\ q' = [q EXCEPT !.phase = "upsert_again",
                            !.total_uploaded = r.total_uploaded,
                            !.sent = r.sent, !.report = UploadReport(r)]
    /\ UNCHANGED << messages, chart, birth_data, awaiting_birth_data,
                    initial_summary_shown, turn, turns >>

NextIngest == UpsertChunks \/ UpsertAgain

SpecIngest == InitIngest /\ [][NextIngest]_vars

----------------------------------------------------------------------------
(* Chart validation: LalKitabHouseSystem.validate_chart. *)

\* how many planets are removed from, and how many houses are changed in, a
\* computed chart
MaxEdits == 1

\* the house values put in: the ends of the range and their neighbours
EdgeHouses == {0, 1, 12, 13}

EditSets == { S \in SUBSET Planets : Cardinality(S) <= MaxEdits }

\* chart_ without the planets of removed, the planets of changed set to house
EditChart(chart_, removed, changed, house) ==
    [ p \in Planets \ removed |-> IF p \in changed THEN house ELSE chart_[p] ]

InitValidate ==
    /\ messages = << [role |-> "assistant", content |-> Welcome] >>
    /\ chart = None
    /\ birth_data = None
    /\ awaiting_birth_data = FALSE
    /\ initial_summary_shown = FALSE
    /\ store = {}
    /\ turn = NoTurn
    /\ turns = 0
    /\ \E c \in SampleCharts, removed \in EditSets, changed \in EditSets,
          house \in EdgeHouses :
           q = [ op |-> "validate_chart", phase |-> "call", base |-> c,
                 removed |-> removed, changed |-> changed \ removed,
                 house |-> house,
                 chart |-> EditChart(c, removed, changed, house),
                 result |-> FALSE ]

\* validate_chart is called and returns
ValidateChart ==
    /\ q.phase = "call"
    /\ q' = [q EXCEPT !.phase = "validate_chart",
                      !.result = validate_chart(q.chart)]
    /\ UNCHANGED << messages, chart, birth_data, awaiting_birth_data,
                    initial_summary_shown, store, turn, turns >>

NextValidate == ValidateChart

SpecValidate == InitValidate /\ [][NextValidate]_vars

----------------------------------------------------------------------------
(* Grouping a chart by houses: LalKitabHouseSystem.get_planets_in_house. *)

\* the charts calculate_chart_by_place computes for ChartData
ComputedCharts == { TheValue(generate_chart(d, "none").val) : d \in ChartData }

\* the house asked for: 1..12 and numbers on either side
HouseArgs == (0 - 1)..14

InitHouses ==
    /\ messages = << [role |-> "assistant", content |-> Welcome] >>
    /\ chart = None
    /\ birth_data = None
    /\ awaiting_birth_data = FALSE
    /\ initial_summary_shown = FALSE
    /\ store = {}
    /\ turn = NoTurn
    /\ turns = 0
    /\ \E c \in ComputedCharts, removed \in EditSets, house \in HouseArgs :
           q = [ op |-> "get_planets_in_house", phase |-> "call",
                 chart |-> EditChart(c, removed, {}, 0), house |-> house,
                 result |-> << >>, lines |-> << >> ]

\* get_planets_in_house(chart, house) and format_chart_by_houses(chart) are
\* called and return
GetPlanetsInHouse ==
    /\ q.phase = "call"
    /\ q' = [q EXCEPT !.phase = "get_planets_in_house",
                      !.result = get_planets_in_house(q.chart, q.house),
                      !.lines = format_chart_by_houses(q.chart)]
    /\ UNCHANGED << messages, chart, birth_data, awaiting_birth_data,
                    initial_summary_shown, store, turn, turns >>

NextHouses == GetPlanetsInHouse

SpecHouses == InitHouses /\ [][NextHouses]_vars

----------------------------------------------------------------------------
(* Headings and chunks: regex_parser.py and chunker.py.                    *)
(* A text is a sequence of characters (strings of length one); offsets     *)
(* count from 0 as in Python.                                              *)

UpperLetters == << "A", "B", "C", "D", "E", "F", "G", "H", "I", "J", "K", "L", "M", "N", "O", "P", "Q", "R", "S", "T", "U", "V", "W", "X", "Y", "Z" >>
LowerLetters == << "a", "b", "c", "d", "e", "f", "g", "h", "i", "j", "k", "l", "m", "n", "o", "p", "q", "r", "s", "t", "u", "v", "w", "x", "y", "z" >>

LetterIndex(letters, c) == CHOOSE i \in 1..Len(letters) : letters[i] = c

\* str.lower() and str.upper() of one character
LowerChar(c) ==
    IF \E i \in 1..Len(UpperLetters) : UpperLetters[i] = c
    THEN LowerLetters[LetterIndex(UpperLetters, c)] ELSE c
UpperChar(c) ==
    IF \E i \in 1..Len(LowerLetters) : LowerLetters[i] = c
    THEN UpperLetters[LetterIndex(LowerLetters, c)] ELSE c

\* the characters \s and \d match
IsSpace(c) == c \in {" ", "\t", "\n"}
Digits == << "0", "1", "2", "3", "4", "5", "6", "7", "8", "9" >>
IsDigit(c) == \E i \in 1..Len(Digits) : Digits[i] = c

\* text[k], "" past the end
CharAt(text, k) == IF k >= 0 /\ k < Len(text) THEN text[k + 1] ELSE ""

\* text[a:b]
Slice(text, a, b) == SubSeq(text, a + 1, b)

\* ^ under re.MULTILINE: the start of the text or just after a newline
AtLineStart(text, k) == k = 0 \/ CharAt(text, k - 1) = "\n"

\* the offset after the longest run of white space (of digits) from k
RECURSIVE AfterSpaces(_, _)
AfterSpaces(text, k) ==
    IF IsSpace(CharAt(text, k)) THEN AfterSpaces(text, k + 1) ELSE k
RECURSIVE AfterDigits(_, _)
AfterDigits(text, k) ==
    IF IsDigit(CharAt(text, k)) THEN AfterDigits(text, k + 1) ELSE k

\* a literal of the pattern under re.IGNORECASE matches at k
WordAt(text, k, word) ==
    \A j \in 1..Len(word) : LowerChar(CharAt(text, k + j - 1)) = word[j]

\* (Sun|Moon|Mars|Mercury|Jupiter|Venus|Saturn|Rahu|Ketu), in lower case
PlanetWords ==
    << << "s", "u", "n" >>,
       << "m", "o", "o", "n" >>,
       << "m", "a", "r", "s" >>,
       << "m", "e", "r", "c", "u", "r", "y" >>,
       << "j", "u", "p", "i", "t", "e", "r" >>,
       << "v", "e", "n", "u", "s" >>,
       << "s", "a", "t", "u", "r", "n" >>,
       << "r", "a", "h", "u" >>,
       << "k", "e", "t", "u" >> >>

\* (?:st|nd|rd|th)
Suffixes == << << "s", "t" >>, << "n", "d" >>, << "r", "d" >>, << "t", "h" >> >>

NoMatch == [ ok |-> FALSE, planet_end |-> 0, house_start |-> 0, house_end |-> 0,
             end |-> 0 ]

\* planet_house_pattern matches with its ^ at offset k: the offsets where
\* group 1 ends, where group 2 starts and ends, and where the match ends.
\* Every repetition is greedy, and no shorter choice can make a failed
\* match succeed, because white space, digits and the letters that follow
\* them exclude each other.
PatternAt(text, k) ==
    IF ~AtLineStart(text, k) THEN NoMatch
    ELSE IF ~\E i \in 1..Len(PlanetWords) : WordAt(text, k, PlanetWords[i])
    THEN NoMatch
    ELSE
        LET i == CHOOSE n \in 1..Len(PlanetWords) : WordAt(text, k, PlanetWords[n])
            planet_end == k + Len(PlanetWords[i])
            in_start == AfterSpaces(text, planet_end)
            house_start == AfterSpaces(text, in_start + 2)
            house_end ==
                IF IsDigit(CharAt(text, house_start))
                THEN AfterDigits(text, house_start)
                ELSE IF LowerChar(CharAt(text, house_start)) = "i"
                THEN house_start + 1
                ELSE house_start
            suffix_end ==
                IF \E j \in 1..Len(Suffixes) : WordAt(text, house_end, Suffixes[j])
                THEN house_end + 2 ELSE house_end
            word_start == AfterSpaces(text, suffix_end)
        IN IF /\ in_start > planet_end
              /\ WordAt(text, in_start, << "i", "n" >>)
              /\ house_start > in_start + 2
              /\ house_end > house_start
              /\ word_start > suffix_end
              /\ WordAt(text, word_start, << "h", "o", "u", "s", "e" >>)
           THEN [ ok |-> TRUE, planet_end |-> planet_end,
                  house_start |-> house_start, house_end |-> house_end,
                  end |-> word_start + 5 ]
           ELSE NoMatch

\* str.capitalize(): first character upper case, the rest lower case
Capitalize(chars) ==
    [ j \in 1..Len(chars) |->
        IF j = 1 THEN UpperChar(chars[j]) ELSE LowerChar(chars[j]) ]

\* the string a sequence of characters spells
RECURSIVE JoinChars(_)
JoinChars(chars) ==
    IF chars = << >> THEN "" ELSE Head(chars) \o JoinChars(Tail(chars))

\* int(house_str) for a string of digits
RECURSIVE ToInt(_)
ToInt(digits) ==
    IF digits = << >> THEN 0
    ELSE 10 * ToInt(SubSeq(digits, 1, Len(digits) - 1))
         + (LetterIndex(Digits, digits[Len(digits)]) - 1)

\* find_all_planet_house_headings, lines 21-31: the dict of one match
HeadingOf(text, k, m) ==
    LET house_str == Slice(text, m.house_start, m.house_end)
    IN [ planet |-> JoinChars(Capitalize(Slice(text, k, m.planet_end))),
         house |-> IF house_str = << "I" >> \/ house_str = << "i" >> THEN 1
                   ELSE ToInt(house_str),
         start_pos |-> k,
         end_pos |-> m.end,
         match_text |-> Slice(text, k, m.end) ]

\* finditer: the matches from left to right, each search starting where
\* the previous match ended
RECURSIVE FindIter(_, _, _)
FindIter(text, k, matches) ==
    IF k >= Len(text) THEN matches
    ELSE LET m == PatternAt(text, k)
         IN IF m.ok THEN FindIter(text, m.end, Append(matches, HeadingOf(text, k, m)))
            ELSE FindIter(text, k + 1, matches)

\* RegexParser.find_all_planet_house_headings
find_all_planet_house_headings(text) == FindIter(text, 0, << >>)

\* str.strip(): white space is removed at both ends
RECURSIVE StripChars(_)
StripChars(chars) ==
    IF chars = << >> THEN chars
    ELSE IF IsSpace(Head(chars)) THEN StripChars(Tail(chars))
    ELSE IF IsSpace(chars[Len(chars)])
    THEN StripChars(SubSeq(chars, 1, Len(chars) - 1))
    ELSE chars

\* a slip: the chunk ends where the next heading ends
EndPosAfterNextHeading(text, headings, i) ==
    IF i < Len(headings) THEN headings[i + 1].end_pos ELSE Len(text)

\* extract_chunks, lines 37-40: the start of the next heading, or the end of
\* the text
EndPos(text, headings, i) ==
    IF i < Len(headings) THEN headings[i + 1].start_pos ELSE Len(text)

\* a slip: char_count is taken before the text is stripped
MakeChunkCountsSpan(text, heading, end_pos) ==
    [ planet |-> heading.planet, house |-> heading.house,
      heading |-> heading.match_text,
      content |-> StripChars(Slice(text, heading.start_pos, end_pos)),
      char_count |-> end_pos - heading.start_pos ]

\* extract_chunks, lines 42-50: the chunk of one heading
MakeChunk(text, heading, end_pos) ==
    LET chunk_text == StripChars(Slice(text, heading.start_pos, end_pos))
    IN [ planet |-> heading.planet, house |-> heading.house,
         heading |-> heading.match_text,
         content |-> chunk_text,
         char_count |-> Len(chunk_text) ]

\* LalKitabChunker.extract_chunks
extract_chunks(text) ==
    LET headings == find_all_planet_house_headings(text)
    IN IF headings = << >> THEN << >>
       ELSE [ i \in 1..Len(headings) |->
                MakeChunk(text, headings[i], EndPos(text, headings, i)) ]

\* extract_chunks, lines 35-40: the span text[start_pos:end_pos] of each chunk
ChunkSpans(text) ==
    LET headings == find_all_planet_house_headings(text)
    IN [ i \in 1..Len(headings) |->
           [ start_pos |-> headings[i].start_pos,
             end_pos |-> EndPos(text, headings, i) ] ]

\* the lines documents are made of
\* a heading in column 0
LineHeading ==
    << "S", "u", "n", " ", "i", "n", " ", "1", "s", "t", " ", "H", "o", "u", "s", "e" >>
\* the marker after two spaces
LineSpaces ==
    << " ", " ", "S", "u", "n", " ", "i", "n", " ", "2", "n", "d", " ", "h", "o", "u", "s", "e" >>
\* the marker after a tab
LineTab ==
    << "\t", "M", "o", "o", "n", " ", "i", "n", " ", "3", " ", "H", "o", "u", "s", "e" >>
\* the marker after other text
LineProse ==
    << "s", "e", "e", " ", "S", "u", "n", " ", "i", "n", " ", "4", "t", "h", " ", "H", "o", "u", "s", "e" >>
\* lower case, the literal I, a trailing space
LineLowerI ==
    << "m", "o", "o", "n", " ", "i", "n", " ", "I", " ", "h", "o", "u", "s", "e", " " >>
\* upper case, house 13
LineThirteen ==
    << "M", "A", "R", "S", " ", "i", "n", " ", "1", "3", "t", "h", " ", "H", "o", "u", "s", "e" >>
\* house 0
LineZero ==
    << "R", "a", "h", "u", " ", "i", "n", " ", "0", " ", "H", "o", "u", "s", "e" >>
\* prose
LineText ==
    << "g", "o", "o", "d", " ", "a", "n", "d", " ", "w", "e", "a", "l", "t", "h", "y", "." >>
\* an empty line
LineEmpty ==
    << >>

LinePool == { LineHeading, LineSpaces, LineTab, LineProse, LineLowerI,
              LineThirteen, LineZero, LineText, LineEmpty }

\* the longest document, in lines
MaxLines == 3

\* "\n".join(lines)
RECURSIVE JoinLines(_)
JoinLines(lines) ==
    IF lines = << >> THEN << >>
    ELSE IF Len(lines) = 1 THEN lines[1]
    ELSE lines[1] \o << "\n" >> \o JoinLines(Tail(lines))

Documents == UNION { [1..n -> LinePool] : n \in 0..MaxLines }

InitChunks ==
    /\ messages = << [role |-> "assistant", content |-> Welcome] >>
    /\ chart = None
    /\ birth_data = None
    /\ awaiting_birth_data = FALSE
    /\ initial_summary_shown = FALSE
    /\ store = {}
    /\ turn = NoTurn
    /\ turns = 0
    /\ \E lines \in Documents :
           q = [ op |-> "extract_chunks", phase |-> "call", lines |-> lines,
                 text |-> JoinLines(lines), headings |-> << >>,
                 chunks |-> << >>, spans |-> << >> ]

\* extract_chunks(text) is called and returns
ExtractChunks ==
    /\ q.phase = "call"
    /\ q' = [q EXCEPT !.phase = "extract_chunks",
                      !.headings = find_all_planet_house_headings(q.text),
                      !.chunks = extract_chunks(q.text),
                      !.spans = ChunkSpans(q.text)]
    /\ UNCHANGED << messages, chart, birth_data, awaiting_birth_data,
                    initial_summary_shown, store, turn, turns >>

NextChunks == ExtractChunks

SpecChunks == InitChunks /\ [][NextChunks]_vars

\* ---------------------------------------------------------------------
\* One degree_to_house call, and the Ketu house calculate_chart derives
\* from the same Rahu longitude and ascendant.

\* whole-degree longitudes in [0, 360)
Degrees == 0..359

\* ascendants that are also taken one step of the double grid above the
\* whole degree
OffGridAscendants == {0, 90, 156, 210, 300}

InitDegrees ==
    /\ messages = << >>
    /\ chart = None
    /\ birth_data = None
    /\ awaiting_birth_data = FALSE
    /\ initial_summary_shown = FALSE
    /\ store = {}
    /\ turn = NoTurn
    /\ turns = 0
    /\ \E p \in Degrees, a \in Degrees, ulps \in {0, 1} :
           /\ ulps = 1 => a \in OffGridAscendants
           /\ q = [op |-> "degree_to_house", phase |-> "call",
                   planet_degree |-> p, ascendant |-> [deg |-> a, ulps |-> ulps],
                   house |-> 0, ketu_house |-> 0]

\* the house of a planet at q.planet_degree and, taking it as Rahu's
\* longitude, the house calculate_chart gives Ketu
DegreeToHouse ==
    /\ q.phase = "call"
    /\ q' = [q EXCEPT !.phase = "degree_to_house",
                       !.house = degree_to_house(q.planet_degree, q.ascendant),
                       !.ketu_house = KetuHouse(q.planet_degree, q.ascendant)]
    /\ UNCHANGED << messages, chart, birth_data, awaiting_birth_data,
                    initial_summary_shown, store, turn, turns >>

NextDegrees == DegreeToHouse

SpecDegrees == InitDegrees /\ [][NextDegrees]_vars

\* ---------------------------------------------------------------------
\* One user message to a session whose chart has been computed.

\* the session before any message
FreshSession == [ chart |-> None, birth_data |-> None,
                  initial_summary_shown |-> FALSE ]

\* what the message that gave the complete birth data left behind, for
\* every such message and Rule Store
ChartTurns ==
    { r \in { process_user_message(FreshSession, llm, "none", {}, st) :
                 llm \in ExtractReplies, st \in SampleStores } :
        r.sess.birth_data # None }

InitReady ==
    /\ \E r \in ChartTurns :
           /\ messages = << [role |-> "assistant", content |-> Welcome],
                            [role |-> "user", content |-> "<prompt>"],
                            [role |-> "assistant", content |-> r.turn.reply] >>
           /\ chart = r.sess.chart
           /\ birth_data = r.sess.birth_data
           /\ initial_summary_shown = r.sess.initial_summary_shown
           /\ turn = r.turn
    /\ awaiting_birth_data = FALSE
    /\ store \in SampleStores
    /\ turns = 0
    /\ \E llm \in RelevanceReplies, fault \in ReadyFaults :
           q = [op |-> "process_user_message", phase |-> "call",
                llm |-> llm, fault |-> fault]

\* the message is handled with the classifier reply and the fault of q
ReadyMessage ==
    /\ turns = 0
    /\ HandleMessage(q.llm, q.fault, {})

NextReady == ReadyMessage

SpecReady == InitReady /\ [][NextReady]_vars

\* ---------------------------------------------------------------------
\* process_pdf: the text of an uploaded document is chunked, embedded and
\* written to the Rule Store.

\* the embedding service's vector for a text
EmbeddingOf(text) == << Len(text) % 3, 1 >>

\* generate_embeddings_batch: one request per text, in order; the request
\* for text number fail_at raises (0: none does) and ends the loop
RECURSIVE EmbeddingsLoop(_, _, _, _)
EmbeddingsLoop(texts, fail_at, i, embeddings) ==
    IF i > Len(texts)
    THEN [ ok |-> TRUE, embeddings |-> embeddings, requests |-> Len(texts) ]
    ELSE IF i = fail_at
    THEN [ ok |-> FALSE, embeddings |-> << >>, requests |-> i ]
    ELSE EmbeddingsLoop(texts, fail_at, i + 1,
                        Append(embeddings, EmbeddingOf(texts[i])))

generate_embeddings_batch(texts, fail_at) == EmbeddingsLoop(texts, fail_at, 1, << >>)

\* embed_chunks: the embeddings of all contents, then each chunk with its
\* embedding
embed_chunks(chunks, fail_at) ==
    LET texts == [ i \in 1..Len(chunks) |-> chunks[i].content ]
        e == generate_embeddings_batch(texts, fail_at)
    IN IF ~e.ok THEN [ ok |-> FALSE, chunks |-> << >>, requests |-> e.requests ]
       ELSE [ ok |-> TRUE, requests |-> e.requests,
              chunks |-> [ i \in 1..Len(chunks) |->
                             [ planet |-> chunks[i].planet, house |-> chunks[i].house,
                               heading |-> chunks[i].heading,
                               content |-> chunks[i].content,
                               char_count |-> chunks[i].char_count,
                               embedding |-> e.embeddings[i] ] ] ]

\* upsert_chunks' default batch_size
BatchSize == 100

\* the requests a run of process_pdf has issued, in order
Requests(n, kind) == [ i \in 1..n |-> kind ]

\* a slip: each chunk is written as soon as it is embedded
EmbedAndUpsertChunkByChunk(st, chunks, embed_fail_at, index_fails, write_fail_at) ==
    LET fails == embed_fail_at \in 1..Len(chunks)
        n == IF fails THEN embed_fail_at - 1 ELSE Len(chunks)
        e == embed_chunks(SubSeq(chunks, 1, n), 0)
        r == upsert_chunks(st, e.chunks, 1, 0)
    IN [ store |-> r.store, chunks |-> chunks,
         report |-> IF fails THEN [ kind |-> "error", uploaded |-> None ]
                    ELSE UploadReport(r),
         events |-> << "create_index" >>
                    \o [ i \in 1..(2 * n) |-> IF i % 2 = 1 THEN "embed" ELSE "upsert" ]
                    \o (IF fails THEN << "embed" >> ELSE << >>) ]

\* process_pdf, lines 613-625: the chunks are embedded, the index is created
\* or opened, the embedded chunks are written; any exception is shown as an
\* error.  create_index leaves the records of an existing index alone.
EmbedAndUpsert(st, chunks, embed_fail_at, index_fails, write_fail_at) ==
    LET e == embed_chunks(chunks, embed_fail_at)
        embeds == Requests(e.requests, "embed")
    IN IF ~e.ok
       THEN [ store |-> st, chunks |-> chunks,
              report |-> [ kind |-> "error", uploaded |-> None ],
              events |-> embeds ]
       ELSE IF index_fails
       THEN [ store |-> st, chunks |-> chunks,
              report |-> [ kind |-> "error", uploaded |-> None ],
              events |-> embeds \o << "create_index" >> ]
       ELSE LET r == upsert_chunks(st, e.chunks, BatchSize, write_fail_at)
            IN [ store |-> r.store, chunks |-> chunks, report |-> UploadReport(r),
                 events |-> embeds \o << "create_index" >>
                            \o Requests(Len(r.sent), "upsert") ]

\* process_pdf, lines 603-628, on the text load_text returned
process_pdf(st, text, embed_fail_at, index_fails, write_fail_at) ==
    CHOOSE r \in { EmbedAndUpsert(st, chunks, embed_fail_at, index_fails,
                                  write_fail_at) :
                      chunks \in { extract_chunks(text) } } : TRUE

\* the lines of the uploaded documents
PdfLines == { LineHeading, LineLowerI, LineText }

PdfDocuments == UNION { [1..n -> PdfLines] : n \in 0..MaxLines }

InitPdf ==
    /\ messages = << [role |-> "assistant", content |-> Welcome] >>
    /\ chart = None
    /\ birth_data = None
    /\ awaiting_birth_data = FALSE
    /\ initial_summary_shown = FALSE
    /\ store \in SampleStores
    /\ turn = NoTurn
    /\ turns = 0
    /\ \E lines \in PdfDocuments, embed_fail_at \in 0..MaxLines,
          index_fails \in BOOLEAN, write_fail_at \in 0..1 :
           q = [ op |-> "process_pdf", phase |-> "call", text |-> JoinLines(lines),
                 embed_fail_at |-> embed_fail_at, index_fails |-> index_fails,
                 write_fail_at |-> write_fail_at, before |-> store,
                 chunks |-> << >>,
                 report |-> [ kind |-> "none", uploaded |-> None ],
                 events |-> << >> ]

ProcessPdf ==
    /\ q.phase = "call"
    /\ \E r \in { process_pdf(store, q.text, q.embed_fail_at, q.index_fails,
                                q.write_fail_at) } :
          /\ store' = r.store
          /\ q' = [q EXCEPT !.phase = "process_pdf", !.chunks = r.chunks,
                            !.report = r.report, !.events = r.events]
    /\ UNCHANGED << messages, chart, birth_data, awaiting_birth_data,
                    initial_summary_shown, turn, turns >>

NextPdf == ProcessPdf

SpecPdf == InitPdf /\ [][NextPdf]_vars

----------------------------------------------------------------------------
(* Properties. *)

AllFields == {"date", "time", "place"}

\* a user message was handled in this step
MessageStep == turns' = turns + 1

\* C1: the gate moves from AWAITING_BIRTH_DATA to CHART_READY only in a
\* turn whose message was classified complete and whose chart was computed;
\* an incomplete or non_astrology turn never causes the transition.
C1_ReadyOnlyOnCompleteAndChart ==
    [][ (Gate(birth_data) = "AWAITING_BIRTH_DATA" /\ Gate(birth_data') = "CHART_READY")
            => (MessageStep /\ turn'.status = "complete" /\ turn'.chart_computed) ]_vars

\* a turn has just moved the gate to CHART_READY
C1_Witness ==
    /\ Gate(birth_data) = "CHART_READY"
    /\ turn.gate = "AWAITING_BIRTH_DATA"
    /\ turn.status = "complete" /\ turn.chart_computed

\* the last turn classified its message complete and the chart computation failed
ChartFailedTurn ==
    /\ turn.gate = "AWAITING_BIRTH_DATA" /\ turn.status = "complete"
    /\ turn.chart_attempted /\ ~turn.chart_computed

\* the missing-field list for a set of supplied fields: the absent ones, in
\* date, time, place order
MissingOf(supplied) ==
    (IF "date" \in supplied THEN << >> ELSE << "birth date" >>)
    \o (IF "time" \in supplied THEN << >> ELSE << "birth time" >>)
    \o (IF "place" \in supplied THEN << >> ELSE << "birth place" >>)

\* C2: after a turn classified complete whose chart computation failed the
\* gate is AWAITING_BIRTH_DATA with birth_data None and the reply asks for
\* the details again; the next message goes through extraction and is
\* classified from its own fields alone.
C2_ChartFailureResets ==
    /\ [](ChartFailedTurn =>
            /\ birth_data = None
            /\ Gate(birth_data) = "AWAITING_BIRTH_DATA"
            /\ turn.reply = ReplyChartError)
    /\ [][ (ChartFailedTurn /\ MessageStep) =>
            /\ turn'.gate = "AWAITING_BIRTH_DATA"
            /\ (turn'.status = "complete" <=> turn'.supplied = AllFields)
            /\ (turn'.got_record /\ turn'.status = "incomplete"
                    => turn'.missing = MissingOf(turn'.supplied)) ]_vars

\* a place that cannot be geocoded ended the last turn
C2_Witness ==
    /\ ChartFailedTurn
    /\ turn.supplied = AllFields
    /\ turns >= 2

\* C3: at every turn boundary the session holds a chart iff the gate is
\* CHART_READY (birth_data set).
C3_ChartIffReady ==
    (chart # None) <=> (Gate(birth_data) = "CHART_READY")

\* C4: once a chart is stored, no user message changes or replaces it.
C4_ChartNeverReplaced ==
    [][ (chart # None /\ MessageStep) => chart' = chart ]_vars

\* C5: in CHART_READY a message the relevance gate classifies as not
\* astrology gets the fixed refusal, and the turn issues no embedding
\* request and no Rule Store query.
C5_RefusalReachesNothing ==
    (turn.gate = "CHART_READY" /\ ~turn.relevant)
        => (turn.reply = ReplyRefusal /\ turn.embeds = 0 /\ turn.queries = 0)

\* a message has just been refused in CHART_READY
C5_Witness ==
    turn.gate = "CHART_READY" /\ ~turn.relevant /\ turn.reply = ReplyRefusal

\* the last turn computed a chart from a complete draft
ChartDerivedTurn ==
    turn.gate = "AWAITING_BIRTH_DATA" /\ turn.status = "complete" /\ turn.chart_computed

\* C6 as stated: once a chart has been derived from a complete draft the
\* session no longer holds the birth data.
C6_DraftDiscarded ==
    ChartDerivedTurn => birth_data = None

\* C6 amended: after a turn that derived the chart and produced the initial
\* summary the session still holds the birth data, and it is the data the
\* stored chart was computed from; birth_data is dropped only when the
\* summary step of that turn fails.
C6_DraftKeptWithChart ==
    /\ ChartDerivedTurn =>
           (IF turn.summary_ok THEN birth_data # None ELSE birth_data = None)
    /\ birth_data # None =>
           /\ TheValue(birth_data).date \notin {JNull, JAbsent, ""}
           /\ TheValue(birth_data).time \notin {JNull, JAbsent, ""}
           /\ TheValue(birth_data).place \notin {JNull, JAbsent, ""}
           /\ chart = generate_chart(TheValue(birth_data), "none").val

\* a chart was derived, the summary produced, and the draft is still held
C6_Witness ==
    ChartDerivedTurn /\ turn.summary_ok /\ birth_data # None /\ chart # None

\* C7: a turn that supplies only some of the fields followed by a turn that
\* supplies exactly the remaining ones makes the later turn complete.
C7_DraftAccumulates ==
    [][ ( /\ turn.gate = "AWAITING_BIRTH_DATA" /\ turn.status = "incomplete"
          /\ turn.supplied # {}
          /\ MessageStep
          /\ turn'.supplied = AllFields \ turn.supplied )
            => (turn'.status = "complete" /\ turn'.chart_attempted) ]_vars

\* C8: a failed extraction call classifies the message incomplete with all
\* three fields missing, the turn still ends with a reply, and birth_data
\* and chart are left as they were.
C8_ExtractionFailureIsIncomplete ==
    [][ (MessageStep /\ turn'.gate = "AWAITING_BIRTH_DATA" /\ turn'.extract_failed) =>
            /\ turn'.status = "incomplete"
            /\ turn'.missing = << "birth date", "birth time", "birth place" >>
            /\ turn'.reply = ReplyNeedMore
            /\ ~turn'.chart_attempted
            /\ birth_data' = birth_data
            /\ chart' = chart
            /\ initial_summary_shown' = initial_summary_shown ]_vars

\* an extraction call has just failed
C8_Witness ==
    /\ turn.gate = "AWAITING_BIRTH_DATA" /\ turn.extract_failed
    /\ turn.status = "incomplete" /\ Len(turn.missing) = Cardinality(AllFields)

\* C9: when the collaborator returns a record, the status is complete iff
\* all three fields are present, and otherwise incomplete with the missing
\* list naming exactly the absent fields in date, time, place order.
C9_StatusFollowsFields ==
    (turn.gate = "AWAITING_BIRTH_DATA" /\ turn.got_record) =>
        /\ turn.status = "complete" <=> turn.supplied = AllFields
        /\ turn.supplied # AllFields =>
               /\ turn.status = "incomplete"
               /\ turn.missing = MissingOf(turn.supplied)

\* "born 16 jan 2004": the date alone
C9_Witness ==
    /\ turn.got_record /\ turn.supplied = {"date"}
    /\ turn.status = "incomplete"
    /\ turn.missing = << "birth time", "birth place" >>

\* the rows of a result that belong to one planet, in result order
Rows(result, planet) == SelectSeq(result, LAMBDA r : r.planet = planet)

\* C10: query_by_chart returns, and its result holds exactly the matches of
\* every pair whose lookup succeeded; a failed pair contributes nothing and
\* removes nothing of the others.
C10_FailedPairsOnlyDropTheirOwn ==
    q.phase = "query_by_chart" =>
        /\ \A i \in 1..Len(q.result) : q.result[i].planet \in DOMAIN q.chart
        /\ \A p \in DOMAIN q.chart :
               Rows(q.result, p) =
                   IF p \in q.failing THEN << >>
                   ELSE PairResults(p, q.chart[p],
                            IndexQueryAnd(store, ZeroVector,
                                AndFilter(p, q.chart[p]), q.top_k))

\* a lookup that would have matched failed, and other pairs' rules came back
C10_Witness ==
    /\ q.phase = "query_by_chart"
    /\ \E p \in q.failing :
           IndexQueryAnd(store, ZeroVector, AndFilter(p, q.chart[p]), q.top_k) # << >>
    /\ \E p \in DOMAIN q.chart \ q.failing : Rows(q.result, p) # << >>

\* the position of a planet in the chart's iteration order
PlanetIndex(p) == CHOOSE i \in 1..Len(PlanetOrder) : PlanetOrder[i] = p

\* the stored records whose metadata carries the pair
Stored(st, p, h) == { r \in st : r.metadata.planet = p /\ r.metadata.house = h }

Ids(rows) == [ i \in 1..Len(rows) |-> rows[i].id ]

\* C11: query_by_chart issues exactly one lookup per (planet, house) pair of
\* the chart, filtered on equality of both planet and house and asking for
\* top_k; it returns at most top_k rules per pair, every rule a stored record
\* of its pair, grouped by pair in the chart's iteration order and in the
\* store's order within a pair.
C11_OneLookupPerPair ==
    q.phase = "query_by_chart" =>
        /\ Len(q.lookups) = Cardinality(DOMAIN q.chart)
        /\ \A p \in DOMAIN q.chart :
               Cardinality({ i \in 1..Len(q.lookups) :
                               /\ q.lookups[i].filter.planet = p
                               /\ q.lookups[i].filter.house = q.chart[p]
                               /\ q.lookups[i].top_k = q.top_k }) = 1
        /\ \A i, j \in 1..Len(q.lookups) :
               i < j => PlanetIndex(q.lookups[i].filter.planet)
                            < PlanetIndex(q.lookups[j].filter.planet)
        /\ \A p \in DOMAIN q.chart : Len(Rows(q.result, p)) <= q.top_k
        /\ \A i \in 1..Len(q.result) :
               /\ q.result[i].planet \in DOMAIN q.chart
               /\ q.result[i].house = q.chart[q.result[i].planet]
               /\ \E r \in Stored(store, q.result[i].planet, q.result[i].house) :
                      r.id = q.result[i].id
        /\ \A i, j \in 1..Len(q.result) :
               i < j => PlanetIndex(q.result[i].planet)
                            <= PlanetIndex(q.result[j].planet)
        /\ \A p \in DOMAIN q.chart \ q.failing :
               Ids(Rows(q.result, p)) =
                   Ids(Ranked(Stored(store, p, q.chart[p]), ZeroVector, q.top_k))

\* every lookup succeeded, one pair had more stored records than top_k and
\* was cut to top_k, and rules of several pairs came back
C11_Witness ==
    /\ q.phase = "query_by_chart"
    /\ q.failing = {}
    /\ \E p \in DOMAIN q.chart :
           /\ Cardinality(Stored(store, p, q.chart[p])) > q.top_k
           /\ Len(Rows(q.result, p)) = q.top_k
    /\ \E i, j \in 1..Len(q.result) : q.result[i].planet # q.result[j].planet

\* the stored records that carry one of the chart's pairs
StoredForChart(st, chart_) ==
    UNION { Stored(st, p, chart_[p]) : p \in DOMAIN chart_ }

\* C12: query_by_chart_and_question issues exactly one index request per
\* call; when that request fails the call raises with no result at all, and
\* no further (per-pair) request is made.
C12_HybridIsOneRequest ==
    q.phase = "query_by_chart_and_question" =>
        /\ q.requests = 1
        /\ q.ok = ~q.request_fails
        /\ q.request_fails => q.result = << >>

\* the single request failed although the store holds rules of the chart
C12_Witness ==
    /\ q.phase = "query_by_chart_and_question"
    /\ q.request_fails
    /\ ~q.ok
    /\ StoredForChart(store, q.chart) # {}

\* C13: a hybrid query that returns gives at most top_k rules in total, each
\* a stored record whose (planet, house) is one of the chart's pairs, and
\* gives the empty list, without raising, when no stored record matches.
C13_HybridWithinChartAndTopK ==
    (q.phase = "query_by_chart_and_question" /\ ~q.request_fails) =>
        /\ q.ok
        /\ Len(q.result) <= q.top_k
        /\ \A i \in 1..Len(q.result) :
               /\ q.result[i].planet \in DOMAIN q.chart
               /\ q.result[i].house = q.chart[q.result[i].planet]
               /\ \E r \in StoredForChart(store, q.chart) : r.id = q.result[i].id
        /\ \A i, j \in 1..Len(q.result) :
               i # j => q.result[i].id # q.result[j].id
        /\ StoredForChart(store, q.chart) = {} => q.result = << >>

\* the store holds more rules of the chart than top_k, next to rules of
\* other pairs, and exactly top_k came back
C13_Witness ==
    /\ q.phase = "query_by_chart_and_question"
    /\ q.ok
    /\ Cardinality(StoredForChart(store, q.chart)) > q.top_k
    /\ store \ StoredForChart(store, q.chart) # {}
    /\ Len(q.result) = q.top_k

RuleFields == {"planet", "house", "score", "content", "heading"}

C15_NoDataOnlyAfterSuccessfulLookups ==
    (q.phase = "generate_initial_summary" /\ q.ok /\ q.text = SummaryNoData) =>
        \E p \in DOMAIN q.chart : p \notin q.failing

\* C16: whenever the chart block has issued Rule Store lookups, the chart
\* they were issued for passes validate_chart.
C16_QueriedChartIsValid ==
    (q.phase = "generate_initial_summary" /\ q.requests > 0) =>
        validate_chart(q.chart)

SamePair(a, b) == a.planet = b.planet /\ a.house = b.house

\* the last chunk of the list that carries the pair of chunk number i
LastOfPair(chunks, i) ==
    CHOOSE j \in 1..Len(chunks) :
        /\ SamePair(chunks[j], chunks[i])
        /\ \A k \in 1..Len(chunks) : SamePair(chunks[k], chunks[i]) => k <= j

\* C17: after a successful upsert_chunks the store holds at most one record
\* per (planet, house), under the id <planet in lower case>_house_<house>;
\* for every pair of the uploaded chunks it is the record of the last chunk
\* of that pair, records of other pairs are untouched, and uploading the
\* same chunks once more leaves the store as it is.
C17_OneRecordPerPairLastWins ==
    /\ [](q.phase \in {"upsert_chunks", "upsert_again"} /\ q.ok =>
            /\ \A r \in store :
                   r.id = Lower(r.metadata.planet) \o "_house_"
                              \o ToString(r.metadata.house)
            /\ \A r1, r2 \in store : SamePair(r1.metadata, r2.metadata) => r1 = r2
            /\ \A i \in 1..Len(q.chunks) :
                   /\ VectorOf(q.chunks[LastOfPair(q.chunks, i)]) \in store
                   /\ \A r \in store :
                          SamePair(r.metadata, q.chunks[i]) =>
                              r = VectorOf(q.chunks[LastOfPair(q.chunks, i)])
            /\ \A r \in q.before :
                   (\A i \in 1..Len(q.chunks) : ~SamePair(r.metadata, q.chunks[i]))
                       => r \in store
            /\ \A r \in store :
                   r \in q.before \/ \E i \in 1..Len(q.chunks) : r = VectorOf(q.chunks[i]))
    /\ [][q'.phase = "upsert_again" => store' = store]_vars

\* a list with two different chunks of one pair was uploaded twice over a
\* store that held another record of that pair
C17_Witness ==
    /\ q.phase = "upsert_again"
    /\ \E i, j \in 1..Len(q.chunks) :
           /\ i < j
           /\ SamePair(q.chunks[i], q.chunks[j])
           /\ q.chunks[i] # q.chunks[j]
           /\ VectorOf(q.chunks[j]) \in store
           /\ VectorOf(q.chunks[j]) \notin q.before
           /\ VectorOf(q.chunks[i]) \in q.before

RECURSIVE Flatten(_)
Flatten(batches) ==
    IF batches = << >> THEN << >> ELSE Head(batches) \o Flatten(Tail(batches))

\* the records of the store that the uploaded chunks account for
RecordsPut(st, chunks) ==
    { r \in st : \E i \in 1..Len(chunks) : r = VectorOf(chunks[i]) }

\* the batches are consecutive slices of the chunks' vectors, in input order,
\* each of batch_size vectors but possibly the last, which is not empty
BatchesInOrder ==
    /\ Flatten(q.sent) = VectorsOf(q.chunks)
    /\ \A b \in 1..Len(q.sent) :
           /\ Len(q.sent[b]) >= 1
           /\ Len(q.sent[b]) <= q.batch_size
           /\ b < Len(q.sent) => Len(q.sent[b]) = q.batch_size

\* C18 as stated: a successful upsert_chunks sends the chunks in input order
\* as consecutive batches of at most batch_size, and total_uploaded is the
\* number of input chunks and also the number of records the upload put
\* into the store.
C18_TotalIsRecordsPut ==
    (q.phase = "upsert_chunks" /\ q.ok) =>
        /\ BatchesInOrder
        /\ q.total_uploaded = Some(Len(q.chunks))
        /\ Len(q.chunks) = Cardinality(RecordsPut(store, q.chunks))

\* C18, amended: a successful upsert_chunks sends the chunks in input order
\* as consecutive batches of at most batch_size, each chunk in exactly one
\* batch; total_uploaded is the number of input chunks, that is of vectors
\* sent; the number of records the upload leaves in the store is the number
\* of distinct (planet, house) pairs among the chunks, which is smaller
\* when several chunks share a pair.
C18_TotalIsVectorsSent ==
    (q.phase = "upsert_chunks" /\ q.ok) =>
        /\ BatchesInOrder
        /\ q.total_uploaded = Some(Len(q.chunks))
        /\ q.report = [ kind |-> "success", uploaded |-> Some(Len(q.chunks)) ]
        /\ Cardinality(RecordsPut(store, q.chunks)) =
               Cardinality({ << q.chunks[i].planet, q.chunks[i].house >> :
                               i \in 1..Len(q.chunks) })
        /\ Cardinality(RecordsPut(store, q.chunks)) <= Len(q.chunks)

\* three chunks, two of them of one pair, went out as a full batch and a
\* shorter last one
C18_Witness ==
    /\ q.phase = "upsert_chunks"
    /\ q.ok
    /\ Len(q.sent) = 2
    /\ Len(q.sent[2]) < q.batch_size
    /\ q.total_uploaded = Some(3)
    /\ Cardinality(RecordsPut(store, q.chunks)) = 2

RECURSIVE ApplyBatches(_, _)
ApplyBatches(st, batches) ==
    IF batches = << >> THEN st
    ELSE ApplyBatches(IndexUpsert(st, Head(batches)), Tail(batches))

IsPrefix(s, t) == Len(s) <= Len(t) /\ s = SubSeq(t, 1, Len(s))

\* the upload has a batch number fail_at, whose write fails
WriteFails ==
    q.fail_at >= 1 /\ (q.fail_at - 1) * q.batch_size < Len(q.chunks)

\* C19: when a write of upsert_chunks fails, the failing batch was handed to
\* the index once and no later batch at all; the store holds what the
\* earlier batches wrote; and no count is returned or shown, only the error.
C19_FirstFailureStops ==
    (q.phase = "upsert_chunks" /\ WriteFails) =>
        /\ ~q.ok
        /\ Len(q.sent) = q.fail_at
        /\ IsPrefix(Flatten(q.sent), VectorsOf(q.chunks))
        /\ \A b \in 1..Len(q.sent) : Len(q.sent[b]) <= q.batch_size
        /\ store = ApplyBatches(q.before, SubSeq(q.sent, 1, q.fail_at - 1))
        /\ q.total_uploaded = None
        /\ q.report = [ kind |-> "error", uploaded |-> None ]

\* the second write failed: the first batch changed the store and a third
\* batch was still to come
C19_Witness ==
    /\ q.phase = "upsert_chunks"
    /\ ~q.ok
    /\ q.fail_at = 2
    /\ store # q.before
    /\ Len(Flatten(q.sent)) < Len(q.chunks)

\* C20: validate_chart is true exactly when all nine required planets are
\* keys of the chart and every house is in 1..12: it is true of a computed
\* chart, and false once a planet is removed or a house is set to 0 or 13.
C20_ValidIffNinePlanetsInRange ==
    q.phase = "validate_chart" =>
        /\ q.result =
               (/\ \A p \in Planets : p \in DOMAIN q.chart
                /\ \A p \in DOMAIN q.chart : q.chart[p] \in 1..12)
        /\ validate_chart(q.base)
        /\ q.removed # {} => ~q.result
        /\ (q.changed # {} /\ q.house \in {0, 13}) => ~q.result
        /\ (q.removed = {} /\ (q.changed = {} \/ q.house \in {1, 12})) => q.result

\* a complete chart with one house set to 13 was found invalid
C20_Witness ==
    /\ q.phase = "validate_chart"
    /\ q.removed = {}
    /\ q.changed # {}
    /\ q.house = 13
    /\ ~q.result

Elements(seq) == { seq[i] : i \in 1..Len(seq) }

\* every house of the chart is in 1..12
HousesInRange(chart_) == \A p \in DOMAIN chart_ : chart_[p] \in 1..12

RECURSIVE LineOffset(_, _)
LineOffset(lines, i) ==
    IF i = 1 THEN 0 ELSE LineOffset(lines, i - 1) + Len(lines[i - 1]) + 1

\* the white space in front of the marker of a line
Indent(line) == AfterSpaces(line, 0)

\* lines that hold a marker after white space only
MarkerLines == { LineHeading, LineSpaces, LineTab, LineLowerI }

\* a heading is reported for line number i, at the line's start or at its
\* marker
ReportedFor(i) ==
    \E h \in 1..Len(q.headings) :
        q.headings[h].start_pos \in
            { LineOffset(q.lines, i), LineOffset(q.lines, i) + Indent(q.lines[i]) }

\* C22: a marker with only spaces or tabs in front of it on its line is
\* reported as a heading, like one in column 0; a marker with other text in
\* front of it on its line is not.
C22_LeadingWhiteSpaceIgnored ==
    q.phase = "extract_chunks" =>
        \A i \in 1..Len(q.lines) :
            /\ q.lines[i] \in MarkerLines => ReportedFor(i)
            /\ q.lines[i] = LineProse =>
                   ~\E h \in 1..Len(q.headings) :
                       /\ q.headings[h].start_pos >= LineOffset(q.lines, i)
                       /\ q.headings[h].start_pos
                              <= LineOffset(q.lines, i) + Len(q.lines[i])

\* C23: every heading, and with it every chunk, has one of the nine planet
\* names as its planet and a house in 1..12.
C23_PlanetAndHouseInRange ==
    q.phase = "extract_chunks" =>
        /\ \A h \in 1..Len(q.headings) :
               q.headings[h].planet \in Planets /\ q.headings[h].house \in 1..12
        /\ \A c \in 1..Len(q.chunks) :
               q.chunks[c].planet \in Planets /\ q.chunks[c].house \in 1..12

\* C24: extract_chunks gives one chunk per heading, in order, with the
\* heading's planet and house; chunk i is the stripped text from heading i's
\* start to heading i+1's start, or to the end of the text for the last
\* one, so the spans follow each other without gap or overlap from the
\* first heading's start to the end of the text; a text without heading
\* gives the empty list.
C24_OneChunkPerHeadingSpan ==
    q.phase = "extract_chunks" =>
        /\ q.headings = << >> => q.chunks = << >>
        /\ Len(q.chunks) = Len(q.headings)
        /\ Len(q.spans) = Len(q.headings)
        /\ \A i \in 1..Len(q.headings) :
               /\ q.chunks[i].planet = q.headings[i].planet
               /\ q.chunks[i].house = q.headings[i].house
               /\ q.spans[i].start_pos = q.headings[i].start_pos
               /\ q.spans[i].start_pos < q.spans[i].end_pos
               /\ q.spans[i].end_pos =
                      IF i < Len(q.headings) THEN q.headings[i + 1].start_pos
                      ELSE Len(q.text)
               /\ i < Len(q.headings) => q.spans[i].end_pos = q.spans[i + 1].start_pos
               /\ q.chunks[i].content =
                      StripChars(Slice(q.text, q.spans[i].start_pos, q.spans[i].end_pos))

\* two chunks of different planets, with text in front of the first heading
C24_Witness ==
    /\ q.phase = "extract_chunks"
    /\ Len(q.chunks) = 2
    /\ q.spans[1].start_pos > 0
    /\ q.spans[2].end_pos = Len(q.text)
    /\ q.chunks[1].planet # q.chunks[2].planet

\* C25: the content of every chunk begins with the chunk's heading text and
\* is at least as long, it is the span's text without the white space at its
\* ends, and char_count is its length.
C25_ContentStartsWithHeading ==
    q.phase = "extract_chunks" =>
        \A i \in 1..Len(q.chunks) :
            /\ IsPrefix(q.chunks[i].heading, q.chunks[i].content)
            /\ Len(q.chunks[i].content) >= Len(q.chunks[i].heading)
            /\ q.chunks[i].heading = q.headings[i].match_text
            /\ q.chunks[i].content = StripChars(q.chunks[i].content)
            /\ q.chunks[i].char_count = Len(q.chunks[i].content)

\* a chunk whose span ended in white space that was stripped, and whose
\* content goes on after the heading
C25_Witness ==
    /\ q.phase = "extract_chunks"
    /\ \E i \in 1..Len(q.chunks) :
           /\ q.chunks[i].char_count < q.spans[i].end_pos - q.spans[i].start_pos
           /\ q.chunks[i].char_count > Len(q.chunks[i].heading)

\* the distance from the ascendant forward to the planet, in whole degrees
ForwardDistance(planet_degree, ascendant_deg) ==
    IF planet_degree >= ascendant_deg THEN planet_degree - ascendant_deg
    ELSE planet_degree - ascendant_deg + 360

\* C26: for whole-degree longitudes in [0, 360) the house is
\* floor(((planet - ascendant) mod 360) / 30) + 1: the house h in 1..12 whose
\* 30 degrees [30(h-1), 30h) hold the forward distance from the ascendant;
\* a planet at the ascendant's degree is in house 1.
C26_HouseOfForwardDistance ==
    (q.phase = "degree_to_house" /\ q.ascendant.ulps = 0) =>
        LET d == ForwardDistance(q.planet_degree, q.ascendant.deg)
        IN /\ q.house \in 1..12
           /\ 30 * (q.house - 1) <= d
           /\ d < 30 * q.house
           /\ q.house = (((q.planet_degree - q.ascendant.deg) % 360) \div 30) + 1
           /\ q.planet_degree = q.ascendant.deg => q.house = 1

\* a planet behind the ascendant, where the distance wraps around 360
C26_Witness ==
    /\ q.phase = "degree_to_house"
    /\ q.ascendant.ulps = 0
    /\ q.planet_degree = 20
    /\ q.ascendant.deg = 50
    /\ q.house = 12

\* C27: Ketu's house is degree_to_house((rahu + 180) mod 360, ascendant),
\* and so it is opposite Rahu's house: the two differ by 6 modulo 12.
C27_KetuOppositeRahu ==
    q.phase = "degree_to_house" =>
        /\ q.ketu_house =
               degree_to_house((q.planet_degree + 180) % 360, q.ascendant)
        /\ (q.ketu_house - q.house) % 12 = 6

\* the classifier replies that are yes but for letter case and white space
\* around
YesTexts == {"yes", " Yes\n"}

\* C28: with birth data set, a message goes on to retrieval and answering
\* when the classifier's reply is yes (whatever its case and the white space
\* around it) and also when the classifier call fails; any other reply gets
\* the refusal and reaches neither the embedding nor the Rule Store.
C28_ProceedsOnYesOrOutage ==
    turns = 1 =>
        LET proceeds == q.llm.raises \/ q.llm.text \in YesTexts
        IN /\ turn.gate = "CHART_READY"
           /\ turn.relevant = proceeds
           /\ messages[Len(messages)].content = turn.reply
           /\ proceeds =>
                  /\ turn.embeds = 1
                  /\ turn.reply \in {ReplyAnswer, ReplyAnswerError}
                  /\ q.fault \notin {"embed", "connect"} => turn.queries = 1
                  /\ q.fault = "none" => turn.reply = ReplyAnswer
           /\ ~proceeds =>
                  /\ turn.reply = ReplyRefusal
                  /\ turn.embeds = 0
                  /\ turn.queries = 0

\* the classifier call failed and the message was answered from the store
C28_Witness ==
    /\ turns = 1
    /\ q.llm.raises
    /\ turn.queries = 1
    /\ turn.reply = ReplyAnswer

\* C30: with birth data set, a user message (refused, answered, or failed
\* with the error as its reply) leaves the chart and the birth data as they
\* are, so the gate stays CHART_READY; the only step that returns to
\* AWAITING_BIRTH_DATA is New Reading, which clears the messages, the chart
\* and the birth data together.
C30_ReadyUntilNewReading ==
    [][ birth_data # None =>
          IF turns' # turns
          THEN /\ chart' = chart
               /\ birth_data' = birth_data
               /\ Gate(birth_data') = "CHART_READY"
               /\ turn'.gate = "CHART_READY"
               /\ turn'.reply \in {ReplyRefusal, ReplyAnswer, ReplyAnswerError}
               /\ messages' = messages
                                \o << [role |-> "user", content |-> "<prompt>"],
                                      [role |-> "assistant", content |-> turn'.reply] >>
          ELSE /\ Gate(birth_data') = "AWAITING_BIRTH_DATA"
               /\ chart' = None
               /\ messages' = << [role |-> "assistant", content |-> Welcome] >>
      ]_vars

\* a question whose answering failed: the error is the reply and the chart
\* and the birth data are still there
C30_Witness ==
    /\ birth_data # None
    /\ chart # None
    /\ turn.gate = "CHART_READY"
    /\ turn.reply = ReplyAnswerError
    /\ messages[Len(messages)].content = ReplyAnswerError

\* the embedding request of one of the document's chunks fails
EmbeddingFails == q.embed_fail_at \in 1..Len(q.chunks)

\* C29: every chunk is embedded before the first write to the Rule Store,
\* and when the embedding of a chunk fails an error is reported, nothing is
\* written and the Rule Store is as it was.
C29_EmbedAllBeforeFirstWrite ==
    q.phase = "process_pdf" =>
        /\ \A i, j \in 1..Len(q.events) :
               (q.events[i] = "upsert" /\ q.events[j] = "embed") => j < i
        /\ (\E i \in 1..Len(q.events) : q.events[i] = "upsert") =>
               Cardinality({ j \in 1..Len(q.events) : q.events[j] = "embed" })
                   = Len(q.chunks)
        /\ EmbeddingFails =>
               /\ store = q.before
               /\ q.report.kind = "error"
               /\ \A i \in 1..Len(q.events) : q.events[i] = "embed"

\* the embedding of the second chunk failed for a document none of whose
\* chunks the store holds
C29_Witness ==
    /\ q.phase = "process_pdf"
    /\ q.embed_fail_at = 2
    /\ EmbeddingFails
    /\ q.report.kind = "error"
    /\ q.before = {}
    /\ store = {}
    /\ Len(q.events) = 2

====
